---- MODULE Spec2Model ----
(***************************************************************************)
(* FastNoise2 SmartNode<T>: a shared-ownership handle whose reference      *)
(* count lives out of line in SmartNodeManager, keyed by an allocation id. *)
(* The handle (include/FastNoise/SmartNode.h) is translated method by      *)
(* method.  SmartNodeManager is only declared in that header; its          *)
(* operations are modelled from their documented contract.                 *)
(***************************************************************************)
EXTENDS Integers, Sequences, FiniteSets, TLC

\* ------------------------------------------------------------------ bounds
NumHandles == 3      \* handle objects (variables) that may exist at once
NumSlots   == 2      \* slots of the node pool
NumThreads == 2      \* threads of the concurrent specifications

\* (uint64_t)-1, the all-ones identifier; written -1 (TLC integers are 32 bit)
kInvalidReferenceId == 0 - 1
nullptr == 0

Handles == 1..NumHandles
Ids     == 1..NumSlots
Threads == 1..NumThreads
\* The static type T of each handle variable SmartNode<T>: a variable keeps the
\* type it is declared with; odd ones are SmartNode<Derived>, even ones
\* SmartNode<Base>, Derived a node class derived from Base.
TypeOf(h) == IF h % 2 = 1 THEN "Derived" ELSE "Base"
\* the address of the object constructed in pool slot s
AddrOf(s) == s
ObjAddrs  == {AddrOf(s) : s \in Ids}

VARIABLES
    alive,          \* alive[h]: handle object h is constructed
    mReferenceId,   \* SmartNode::mReferenceId
    mPtr,           \* SmartNode::mPtr
    refCount,       \* registry: referenceCount of record id
    recLive,        \* registry: the record (and its slot) exists
    dtorCalls,      \* destructor invocations for the allocation now/last in the slot
    dtorAddr,       \* address handed to the destructor function
    fault,          \* a registry operation hit an identifier without live record,
                    \* or a destroyed handle was accessed
    calls,          \* registry calls issued by the last operation, in order
    lastOp,         \* the last operation and its operands
    pc,             \* pc[t]: the statement thread t is at
    tThis,          \* the handle thread t is constructing or destroying (this)
    tNode,          \* the handle thread t is copying from (node)
    tId,            \* the identifier thread t loaded for its registry call
    owner,          \* owner[h]: the thread that constructs and destroys handle h
    raced           \* a handle was destroyed while another thread copied from it

hvars == <<alive, mReferenceId, mPtr>>
rvars == <<refCount, recLive, dtorCalls, dtorAddr, fault>>
tvars == <<pc, tThis, tNode, tId, owner, raced>>
vars  == <<alive, mReferenceId, mPtr, refCount, recLive, dtorCalls,
           dtorAddr, fault, calls, lastOp, pc, tThis, tNode, tId, owner, raced>>

\* ------------------------------------------------------- program state value
\* The fields an operation reads and writes, threaded through its statements.
Cur ==
    [id |-> mReferenceId, ptr |-> mPtr, cnt |-> refCount, rec |-> recLive,
     dtor |-> dtorCalls, daddr |-> dtorAddr, fault |-> fault, calls |-> <<>>]

Commit(st) ==
    /\ mReferenceId' = st.id
    /\ mPtr' = st.ptr
    /\ refCount' = st.cnt
    /\ recLive' = st.rec
    /\ dtorCalls' = st.dtor
    /\ dtorAddr' = st.daddr
    /\ fault' = st.fault
    /\ calls' = st.calls

Call(st, op, id, ptr) ==
    [st EXCEPT !.calls = Append(@, [op |-> op, id |-> id, ptr |-> ptr])]

Fault(st, what) ==
    [st EXCEPT !.fault = IF @ = "none" THEN what ELSE @]

\* ------------------------------------------------------------ the registry
\* SmartNodeManager::GetLastAllocID: the identifier registered for an address.
GetLastAllocID(st, ptr) ==
    IF ptr \in ObjAddrs /\ st.rec[ptr] THEN ptr ELSE kInvalidReferenceId

\* SmartNodeManager::IncReference
IncReference(st, id) ==
    LET s1 == Call(st, "Inc", id, nullptr) IN
    IF id = kInvalidReferenceId THEN s1
    ELSE IF ~s1.rec[id] THEN Fault(s1, "inc_dead")
    ELSE [s1 EXCEPT !.cnt[id] = @ + 1]

\* SmartNodeManager::DecReference: decrement, and on the 1 -> 0 transition run
\* destructorFunc( ptr ) and return the slot, as one atomic unit.
DecReference(st, id, ptr) ==
    LET s1 == Call(st, "Dec", id, ptr) IN
    IF id = kInvalidReferenceId THEN s1
    ELSE IF ~s1.rec[id] \/ s1.cnt[id] = 0 THEN Fault(s1, "dec_dead")
    ELSE IF s1.cnt[id] > 1 THEN [s1 EXCEPT !.cnt[id] = @ - 1]
    ELSE [s1 EXCEPT !.cnt[id] = 0, !.rec[id] = FALSE,
                    !.dtor[id] = @ + 1, !.daddr[id] = ptr]

\* SmartNodeManager::ReferenceCount
ReferenceCount(id) ==
    IF id = kInvalidReferenceId THEN 0 ELSE refCount[id]

\* ------------------------------------------------------ SmartNode internals
TryIncUnguarded(st, id) == IncReference(st, id)

TryIncNever(st, id) == st

\* SmartNode::TryInc
TryInc(st, id) ==
    IF id # kInvalidReferenceId THEN IncReference(st, id) ELSE st

ReleaseKeepsId(st, h) ==
    IF st.id[h] # kInvalidReferenceId
    THEN DecReference(st, st.id[h], st.ptr[h])
    ELSE st

ReleaseNoDec(st, h) ==
    [st EXCEPT !.id[h] = kInvalidReferenceId, !.ptr[h] = nullptr]

\* SmartNode::Release
Release(st, h) ==
    LET s1 == IF st.id[h] # kInvalidReferenceId
              THEN DecReference(st, st.id[h], st.ptr[h])
              ELSE st
    IN [s1 EXCEPT !.id[h] = kInvalidReferenceId, !.ptr[h] = nullptr]

\* the two member writes "mReferenceId = i; mPtr = p"
SetHandle(st, h, i, p) == [st EXCEPT !.id[h] = i, !.ptr[h] = p]

\* ---------------------------------------------------------------- observers
use_count(h) ==
    IF mReferenceId[h] = kInvalidReferenceId THEN 0
    ELSE ReferenceCount(mReferenceId[h])

unique(h) == use_count(h) = 1

get(h) == mPtr[h]

OperatorBool(h) == mPtr[h] # nullptr

OperatorEqSameObject(a, b) == a = b

\* operator==( const SmartNode& lhs, const SmartNode<U>& rhs )
OperatorEq(a, b) == get(a) = get(b)

\* operator!=( const SmartNode& lhs, const SmartNode<U>& rhs )
OperatorNe(a, b) == get(a) # get(b)

\* ------------------------------------------------------------------- Init
Init ==
    /\ alive = [h \in Handles |-> FALSE]
    /\ mReferenceId = [h \in Handles |-> kInvalidReferenceId]
    /\ mPtr = [h \in Handles |-> nullptr]
    /\ refCount = [s \in Ids |-> 0]
    /\ recLive = [s \in Ids |-> FALSE]
    /\ dtorCalls = [s \in Ids |-> 0]
    /\ dtorAddr = [s \in Ids |-> nullptr]
    /\ fault = "none"
    /\ calls = <<>>
    /\ lastOp = [name |-> "init", dst |-> 0, src |-> 0]
    /\ pc = [t \in Threads |-> "idle"]
    /\ tThis = [t \in Threads |-> 0]
    /\ tNode = [t \in Threads |-> 0]
    /\ tId = [t \in Threads |-> kInvalidReferenceId]
    /\ owner = [h \in Handles |-> 0]
    /\ raced = FALSE

\* a whole operation, run by one thread with no other thread active
Op(name, dst, src) ==
    /\ lastOp' = [name |-> name, dst |-> dst, src |-> src]
    /\ UNCHANGED tvars

\* a handle object comes into being
Construct(h) == alive' = [alive EXCEPT ![h] = TRUE]

\* ------------------------------------------------------------ constructors
\* SmartNode( std::nullptr_t = nullptr )
DefaultConstruct(h) ==
    /\ fault = "none" /\ ~alive[h]
    /\ Construct(h)
    /\ Commit(SetHandle(Cur, h, kInvalidReferenceId, nullptr))
    /\ Op("DefaultConstruct", h, 0)

FromPointerNoInc(st, h, ptr) ==
    LET i == GetLastAllocID(st, ptr)
    IN SetHandle(Call(st, "GetLastAllocID", i, ptr), h, i, ptr)

\* explicit SmartNode( T* ptr )
FromPointer(st, h, ptr) ==
    LET i  == GetLastAllocID(st, ptr)
        s1 == Call(st, "GetLastAllocID", i, ptr)
    IN IncReference(SetHandle(s1, h, i, ptr), i)

\* New<T>(): take a free slot, register its record with count 0, construct the
\* node in place and wrap it with SmartNode( T* ).  The operation is recorded
\* with 1 when the slot held an allocation before (destroyed since), else 0.
New(h, s) ==
    /\ fault = "none" /\ ~alive[h]
    /\ ~recLive[s]
    /\ Construct(h)
    /\ LET s0 == [Cur EXCEPT !.rec[s] = TRUE, !.cnt[s] = 0, !.dtor[s] = 0,
                             !.daddr[s] = nullptr]
       IN Commit(FromPointer(s0, h, AddrOf(s)))
    /\ Op("New", h, dtorCalls[s])

CopyBodyNoInc(st, dst, src) ==
    SetHandle(st, dst, st.id[src], st.ptr[src])

\* SmartNode( const SmartNode& node ) and SmartNode( const SmartNode<U>& node )
CopyBody(st, dst, src) ==
    LET s1 == TryInc(st, st.id[src])
    IN SetHandle(s1, dst, s1.id[src], s1.ptr[src])

CopyConstruct(dst, src) ==
    /\ fault = "none" /\ ~alive[dst] /\ alive[src]
    /\ TypeOf(dst) = TypeOf(src)
    /\ Construct(dst)
    /\ Commit(CopyBody(Cur, dst, src))
    /\ Op("CopyConstruct", dst, src)

\* SmartNode( const SmartNode<U>& node ), U* convertible to T*
Convertible(U, T) == U = "Derived" /\ T = "Base"

ConvCopyConstruct(dst, src) ==
    /\ fault = "none" /\ ~alive[dst] /\ alive[src]
    /\ Convertible(TypeOf(src), TypeOf(dst))
    /\ Construct(dst)
    /\ Commit(CopyBody(Cur, dst, src))
    /\ Op("ConvCopyConstruct", dst, src)

AliasBodyNoInc(st, dst, src, ptr) ==
    SetHandle(st, dst, st.id[src], ptr)

\* SmartNode( const SmartNode<U>& node, T* ptr ); assert( ptr )
AliasBody(st, dst, src, ptr) ==
    LET s1 == TryInc(st, st.id[src])
    IN SetHandle(s1, dst, s1.id[src], ptr)

AliasConstruct(dst, src, ptr) ==
    /\ fault = "none" /\ ~alive[dst] /\ alive[src]
    /\ ptr # nullptr
    /\ Construct(dst)
    /\ Commit(AliasBody(Cur, dst, src, ptr))
    /\ Op("AliasConstruct", dst, src)

MoveBodyKeepsSource(st, dst, src) ==
    SetHandle(st, dst, st.id[src], st.ptr[src])

\* SmartNode( SmartNode&& node ) and SmartNode( SmartNode<U>&& node )
MoveBody(st, dst, src) ==
    LET s1 == SetHandle(st, dst, st.id[src], st.ptr[src])
    IN SetHandle(s1, src, kInvalidReferenceId, nullptr)

MoveConstruct(dst, src) ==
    /\ fault = "none" /\ ~alive[dst] /\ alive[src]
    /\ TypeOf(dst) = TypeOf(src)
    /\ Construct(dst)
    /\ Commit(MoveBody(Cur, dst, src))
    /\ Op("MoveConstruct", dst, src)

ConvMoveConstruct(dst, src) ==
    /\ fault = "none" /\ ~alive[dst] /\ alive[src]
    /\ Convertible(TypeOf(src), TypeOf(dst))
    /\ Construct(dst)
    /\ Commit(MoveBody(Cur, dst, src))
    /\ Op("ConvMoveConstruct", dst, src)

\* ~SmartNode()
Destroy(h) ==
    /\ fault = "none" /\ alive[h]
    /\ alive' = [alive EXCEPT ![h] = FALSE]
    /\ Commit(Release(Cur, h))
    /\ Op("Destroy", h, 0)

\* ------------------------------------------------------------- assignments
\* void swap( SmartNode& node )
SwapBody(st, a, b) ==
    [st EXCEPT !.id[a] = st.id[b], !.id[b] = st.id[a],
               !.ptr[a] = st.ptr[b], !.ptr[b] = st.ptr[a]]

Swap(a, b) ==
    /\ fault = "none" /\ alive[a] /\ alive[b]
    /\ TypeOf(a) = TypeOf(b)
    /\ UNCHANGED alive
    /\ Commit(SwapBody(Cur, a, b))
    /\ Op("Swap", a, b)

\* SmartNode& operator=( SmartNode&& node )
MoveAssign(dst, src) ==
    /\ fault = "none" /\ alive[dst] /\ alive[src]
    /\ TypeOf(dst) = TypeOf(src)
    /\ UNCHANGED alive
    /\ Commit(SwapBody(Cur, dst, src))
    /\ Op("MoveAssign", dst, src)

ConvMoveAssignBodyNoRelease(st, dst, src) ==
    IF st.id[dst] = st.id[src]
    THEN [st EXCEPT !.ptr[dst] = st.ptr[src]]
    ELSE LET s2 == SetHandle(st, dst, st.id[src], st.ptr[src])
         IN SetHandle(s2, src, kInvalidReferenceId, nullptr)

\* SmartNode& operator=( SmartNode<U>&& node )
ConvMoveAssignBody(st, dst, src) ==
    IF st.id[dst] = st.id[src]
    THEN [st EXCEPT !.ptr[dst] = st.ptr[src]]
    ELSE LET s1 == Release(st, dst)
             s2 == SetHandle(s1, dst, s1.id[src], s1.ptr[src])
         IN SetHandle(s2, src, kInvalidReferenceId, nullptr)

ConvMoveAssign(dst, src) ==
    /\ fault = "none" /\ alive[dst] /\ alive[src]
    /\ Convertible(TypeOf(src), TypeOf(dst))
    /\ UNCHANGED alive
    /\ Commit(ConvMoveAssignBody(Cur, dst, src))
    /\ Op("ConvMoveAssign", dst, src)

CopyAssignBodyNoSelfCheck(st, dst, src) ==
    LET a == TryInc(st, st.id[src])
        b == Release(a, dst)
    IN [b EXCEPT !.id[dst] = b.id[src], !.ptr[dst] = b.ptr[src]]

CopyAssignBodyReleaseFirst(st, dst, src) ==
    LET s1 == IF st.id[dst] # st.id[src]
              THEN LET a == Release(st, dst)
                       b == TryInc(a, a.id[src])
                   IN [b EXCEPT !.id[dst] = b.id[src]]
              ELSE st
    IN [s1 EXCEPT !.ptr[dst] = s1.ptr[src]]

\* SmartNode& operator=( const SmartNode& node ) and
\* SmartNode& operator=( const SmartNode<U>& node )
CopyAssignBody(st, dst, src) ==
    LET s1 == IF st.id[dst] # st.id[src]
              THEN LET a == TryInc(st, st.id[src])
                       b == Release(a, dst)
                   IN [b EXCEPT !.id[dst] = b.id[src]]
              ELSE st
    IN [s1 EXCEPT !.ptr[dst] = s1.ptr[src]]

CopyAssign(dst, src) ==
    /\ fault = "none" /\ alive[dst] /\ alive[src]
    /\ TypeOf(dst) = TypeOf(src)
    /\ UNCHANGED alive
    /\ Commit(CopyAssignBody(Cur, dst, src))
    /\ Op("CopyAssign", dst, src)

ConvCopyAssign(dst, src) ==
    /\ fault = "none" /\ alive[dst] /\ alive[src]
    /\ Convertible(TypeOf(src), TypeOf(dst))
    /\ UNCHANGED alive
    /\ Commit(CopyAssignBody(Cur, dst, src))
    /\ Op("ConvCopyAssign", dst, src)

\* void reset( T* ptr = nullptr ): *this = SmartNode( ptr ).  The temporary is
\* built by SmartNode( T* ), swapped in by operator=( SmartNode&& ) and then
\* destroyed, which releases what the handle held before.
ResetBody(st, h, ptr) ==
    LET i  == GetLastAllocID(st, ptr)
        s1 == IncReference(Call(st, "GetLastAllocID", i, ptr), i)
        \* swap( temporary ): the handle takes (i, ptr), the temporary the old state
        oldId  == s1.id[h]
        oldPtr == s1.ptr[h]
        s2 == SetHandle(s1, h, i, ptr)
        \* ~SmartNode() of the temporary
    IN IF oldId # kInvalidReferenceId THEN DecReference(s2, oldId, oldPtr) ELSE s2

Reset(h, ptr) ==
    /\ fault = "none" /\ alive[h]
    /\ ptr = nullptr \/ (ptr \in ObjAddrs /\ recLive[ptr])
    /\ UNCHANGED alive
    /\ Commit(ResetBody(Cur, h, ptr))
    /\ Op("Reset", h, ptr)

\* New<T>() with every slot of the pool taken: the request fails
NewFails(h) ==
    /\ fault = "none" /\ ~alive[h]
    /\ \A s \in Ids : recLive[s]
    /\ UNCHANGED <<hvars, rvars>>
    /\ calls' = <<>>
    /\ Op("NewFails", h, 0)

\* Every operation; the aliasing constructor is given the source's own pointer,
\* as in SmartNode<T>( node, static_cast<T*>( node.get() ) ).
Next ==
    \/ \E h \in Handles : DefaultConstruct(h)
    \/ \E h \in Handles, s \in Ids : New(h, s)
    \/ \E h \in Handles : NewFails(h)
    \/ \E d \in Handles, s \in Handles : CopyConstruct(d, s)
    \/ \E d \in Handles, s \in Handles : ConvCopyConstruct(d, s)
    \/ \E d \in Handles, s \in Handles : AliasConstruct(d, s, mPtr[s])
    \/ \E d \in Handles, s \in Handles : MoveConstruct(d, s)
    \/ \E d \in Handles, s \in Handles : ConvMoveConstruct(d, s)
    \/ \E h \in Handles : Destroy(h)
    \/ \E a \in Handles, b \in Handles : Swap(a, b)
    \/ \E d \in Handles, s \in Handles : MoveAssign(d, s)
    \/ \E d \in Handles, s \in Handles : ConvMoveAssign(d, s)
    \/ \E d \in Handles, s \in Handles : CopyAssign(d, s)
    \/ \E d \in Handles, s \in Handles : ConvCopyAssign(d, s)
    \/ \E h \in Handles, p \in ObjAddrs \cup {nullptr} : Reset(h, p)

Spec == Init /\ [][Next]_vars

\* The same, with the aliasing constructor given the address of any live node.
NextAlias ==
    \/ Next
    \/ \E d \in Handles, s \in Handles, p \in {AddrOf(i) : i \in {j \in Ids : recLive[j]}} :
          AliasConstruct(d, s, p)

SpecAlias == Init /\ [][NextAlias]_vars

\* ------------------------------------------------------------ concurrency
\* Threads run the copy constructor and the destructor statement by
\* statement; each registry call is one atomic step.  A handle belongs to the
\* thread that constructs it, which alone destroys it.  Once a handle has been
\* destroyed while another thread was copying from it the behaviour is
\* undefined: the operations under way finish, and no further one is begun.
CopyPcs    == {"copy_inc", "copy_id", "copy_ptr"}
ReleasePcs == {"rel_dec", "rel_id", "rel_ptr"}

CommitRegistry(st) ==
    /\ refCount' = st.cnt
    /\ recLive' = st.rec
    /\ dtorCalls' = st.dtor
    /\ dtorAddr' = st.daddr
    /\ fault' = st.fault

\* one allocation, shared by the handles of L, handed out before the threads start
InitMT ==
    \E L \in (SUBSET Handles) \ {{}} :
        /\ owner \in [Handles -> Threads \cup {0}]
        /\ \A h \in Handles : owner[h] # 0 <=> h \in L
        /\ alive = [h \in Handles |-> h \in L]
        /\ mReferenceId = [h \in Handles |-> IF h \in L THEN 1 ELSE kInvalidReferenceId]
        /\ mPtr = [h \in Handles |-> IF h \in L THEN AddrOf(1) ELSE nullptr]
        /\ refCount = [s \in Ids |-> IF s = 1 THEN Cardinality(L) ELSE 0]
        /\ recLive = [s \in Ids |-> s = 1]
        /\ dtorCalls = [s \in Ids |-> 0]
        /\ dtorAddr = [s \in Ids |-> nullptr]
        /\ fault = "none"
        /\ calls = <<>>
        /\ lastOp = [name |-> "init", dst |-> 0, src |-> 0]
        /\ pc = [t \in Threads |-> "idle"]
        /\ tThis = [t \in Threads |-> 0]
        /\ tNode = [t \in Threads |-> 0]
        /\ tId = [t \in Threads |-> kInvalidReferenceId]
        /\ raced = FALSE

\* SmartNode( const SmartNode& node ): the argument of TryInc is loaded
BeginCopy(t, d, s) ==
    /\ fault = "none" /\ pc[t] = "idle"
    /\ ~raced
    /\ owner[d] = 0 /\ ~alive[d] /\ alive[s]
    /\ owner' = [owner EXCEPT ![d] = t]
    /\ pc' = [pc EXCEPT ![t] = "copy_inc"]
    /\ tThis' = [tThis EXCEPT ![t] = d]
    /\ tNode' = [tNode EXCEPT ![t] = s]
    /\ tId' = [tId EXCEPT ![t] = mReferenceId[s]]
    /\ raced' = (raced \/ \E u \in Threads \ {t} : pc[u] \in ReleasePcs /\ tThis[u] = s)
    /\ UNCHANGED <<hvars, rvars, calls, lastOp>>

CopyIncStepSkip(st, id) == st

\* TryInc( node.mReferenceId )
CopyIncStep(st, id) ==
    IF id # kInvalidReferenceId THEN IncReference(st, id) ELSE st

CopyInc(t) ==
    /\ fault = "none" /\ pc[t] = "copy_inc"
    /\ CommitRegistry(CopyIncStep(Cur, tId[t]))
    /\ pc' = [pc EXCEPT ![t] = "copy_id"]
    /\ UNCHANGED <<hvars, calls, lastOp, tThis, tNode, tId, owner, raced>>

\* mReferenceId = node.mReferenceId
CopyId(t) ==
    /\ fault = "none" /\ pc[t] = "copy_id"
    /\ mReferenceId' = [mReferenceId EXCEPT ![tThis[t]] = mReferenceId[tNode[t]]]
    /\ pc' = [pc EXCEPT ![t] = "copy_ptr"]
    /\ UNCHANGED <<alive, mPtr, rvars, calls, lastOp, tThis, tNode, tId, owner, raced>>

\* mPtr = node.mPtr; the handle is constructed
CopyPtr(t) ==
    /\ fault = "none" /\ pc[t] = "copy_ptr"
    /\ mPtr' = [mPtr EXCEPT ![tThis[t]] = mPtr[tNode[t]]]
    /\ alive' = [alive EXCEPT ![tThis[t]] = TRUE]
    /\ pc' = [pc EXCEPT ![t] = "idle"]
    /\ tThis' = [tThis EXCEPT ![t] = 0]
    /\ tNode' = [tNode EXCEPT ![t] = 0]
    /\ tId' = [tId EXCEPT ![t] = kInvalidReferenceId]
    /\ UNCHANGED <<mReferenceId, rvars, calls, lastOp, owner, raced>>

\* ~SmartNode(): Release() loads mReferenceId
BeginRelease(t, h) ==
    /\ fault = "none" /\ pc[t] = "idle"
    /\ ~raced
    /\ owner[h] = t /\ alive[h]
    /\ pc' = [pc EXCEPT ![t] = "rel_dec"]
    /\ tThis' = [tThis EXCEPT ![t] = h]
    /\ tId' = [tId EXCEPT ![t] = mReferenceId[h]]
    /\ raced' = (raced \/ \E u \in Threads \ {t} : pc[u] \in CopyPcs /\ tNode[u] = h)
    /\ UNCHANGED <<hvars, rvars, calls, lastOp, tNode, owner>>

ReleaseDecStepSkip(st, id, ptr) == st

\* if( mReferenceId != kInvalidReferenceId ) DecReference( mReferenceId, mPtr, ... )
ReleaseDecStep(st, id, ptr) ==
    IF id # kInvalidReferenceId THEN DecReference(st, id, ptr) ELSE st

ReleaseDec(t) ==
    /\ fault = "none" /\ pc[t] = "rel_dec"
    /\ CommitRegistry(ReleaseDecStep(Cur, tId[t], mPtr[tThis[t]]))
    /\ pc' = [pc EXCEPT ![t] = "rel_id"]
    /\ UNCHANGED <<hvars, calls, lastOp, tThis, tNode, tId, owner, raced>>

\* mReferenceId = kInvalidReferenceId
ReleaseId(t) ==
    /\ fault = "none" /\ pc[t] = "rel_id"
    /\ mReferenceId' = [mReferenceId EXCEPT ![tThis[t]] = kInvalidReferenceId]
    /\ pc' = [pc EXCEPT ![t] = "rel_ptr"]
    /\ UNCHANGED <<alive, mPtr, rvars, calls, lastOp, tThis, tNode, tId, owner, raced>>

\* mPtr = nullptr; the destructor returns and the handle is gone
ReleasePtr(t) ==
    /\ fault = "none" /\ pc[t] = "rel_ptr"
    /\ mPtr' = [mPtr EXCEPT ![tThis[t]] = nullptr]
    /\ alive' = [alive EXCEPT ![tThis[t]] = FALSE]
    /\ pc' = [pc EXCEPT ![t] = "idle"]
    /\ tThis' = [tThis EXCEPT ![t] = 0]
    /\ tNode' = [tNode EXCEPT ![t] = 0]
    /\ tId' = [tId EXCEPT ![t] = kInvalidReferenceId]
    /\ owner' = [owner EXCEPT ![tThis[t]] = 0]
    /\ UNCHANGED <<mReferenceId, rvars, calls, lastOp, raced>>

ThreadStep(t) ==
    \/ CopyInc(t) \/ CopyId(t) \/ CopyPtr(t)
    \/ ReleaseDec(t) \/ ReleaseId(t) \/ ReleasePtr(t)
    \/ \E h \in Handles : BeginRelease(t, h)

\* every thread copies from and destroys its own handles only
NextOwn ==
    \E t \in Threads :
        \/ ThreadStep(t)
        \/ \E d \in Handles, s \in Handles : owner[s] = t /\ BeginCopy(t, d, s)

SpecOwn == InitMT /\ [][NextOwn]_vars

\* a thread may copy from any handle, also one another thread owns
NextMT ==
    \E t \in Threads :
        \/ ThreadStep(t)
        \/ \E d \in Handles, s \in Handles : BeginCopy(t, d, s)

SpecMT == InitMT /\ [][NextMT]_vars

\* ------------------------------------------------------- claim vocabulary
NonEmpty(h) == mReferenceId[h] # kInvalidReferenceId

\* the live handles whose identifier names allocation s
Naming(s) == {k \in Handles : alive[k] /\ mReferenceId[k] = s}

\* the step just taken was operation name on (d, s)
Did(name, d, s) == lastOp' = [name |-> name, dst |-> d, src |-> s]

IncCall(i)    == [op |-> "Inc", id |-> i, ptr |-> nullptr]
DecCall(i, p) == [op |-> "Dec", id |-> i, ptr |-> p]

\* C1: between operations, use_count() of every non-empty handle is exactly
\* the number of live handles whose identifier names the same allocation.
C1_UseCountIsLiveHandles ==
    /\ fault = "none"
    /\ \A h \in Handles :
          (alive[h] /\ NonEmpty(h)) =>
              /\ recLive[mReferenceId[h]]
              /\ use_count(h) = Cardinality(Naming(mReferenceId[h]))

\* A copied to B, B moved into C: B is the sentinel, A and C count 2.
C1_Witness ==
    /\ lastOp.name \in {"MoveConstruct", "ConvMoveConstruct"}
    /\ alive[lastOp.src] /\ ~NonEmpty(lastOp.src)
    /\ NonEmpty(lastOp.dst) /\ use_count(lastOp.dst) = 2
    /\ \E a \in Handles \ {lastOp.dst} :
          alive[a] /\ mReferenceId[a] = mReferenceId[lastOp.dst] /\ use_count(a) = 2

\* C2: an allocation is destroyed, and its slot returned, exactly once, by
\* the release of its last live handle: the record exists exactly while some
\* live handle names it, no destructor has run for an existing record, and a
\* record disappears only together with the one destructor call, in a step
\* that releases the only handle left.
C2_StateOk ==
    /\ fault = "none"
    /\ \A s \in Ids :
          /\ dtorCalls[s] <= 1
          /\ recLive[s] <=> Naming(s) # {}
          /\ recLive[s] => dtorCalls[s] = 0

C2_StepOk ==
    \A s \in Ids :
        /\ (recLive[s] /\ ~recLive'[s]) =>
              /\ dtorCalls'[s] = 1
              /\ Cardinality(Naming(s)) = 1
              /\ lastOp'.name \in {"Destroy", "CopyAssign", "ConvCopyAssign",
                                   "ConvMoveAssign", "Reset"}
              /\ mReferenceId[lastOp'.dst] = s
        /\ (dtorCalls'[s] > dtorCalls[s]) => (recLive[s] /\ ~recLive'[s])

C2_DestroyedOnceAtLastRelease == []C2_StateOk /\ [][C2_StepOk]_vars

\* a destructor released the last handle of an allocation: one Decrement,
\* the destructor function ran once and the record is gone
C2_Witness ==
    /\ lastOp.name = "Destroy"
    /\ \E s \in Ids : ~recLive[s] /\ dtorCalls[s] = 1 /\ calls = <<DecCall(s, AddrOf(s))>>

\* C3: a Derived handle and the Base handle made from it by converting copy
\* construction hold one identifier and one count; a copy made through either
\* raises use_count() of both; releasing one of the two leaves the object
\* alive, and the object is destroyed exactly once, by the release of the last.
SharedPair(d, b) ==
    /\ TypeOf(d) = "Derived" /\ TypeOf(b) = "Base"
    /\ alive[d] /\ alive[b]
    /\ NonEmpty(d) /\ mReferenceId[d] = mReferenceId[b]

C3_StateOk ==
    /\ \A d, b \in Handles :
          SharedPair(d, b) =>
              /\ use_count(d) = use_count(b)
              /\ use_count(d) = Cardinality(Naming(mReferenceId[d]))
              /\ dtorCalls[mReferenceId[d]] = 0
    /\ \A d, b \in Handles :
          (lastOp = [name |-> "ConvCopyConstruct", dst |-> b, src |-> d]) =>
              /\ mReferenceId[b] = mReferenceId[d]
              /\ mPtr[b] = mPtr[d]
              /\ NonEmpty(d) => (SharedPair(d, b) /\ use_count(b) >= 2)

C3_StepOk ==
    \A d, b \in Handles :
        SharedPair(d, b) =>
            LET s == mReferenceId[d] IN
            /\ \A n \in Handles, x \in {d, b} :
                  (Did("CopyConstruct", n, x) \/ Did("ConvCopyConstruct", n, x)) =>
                      /\ use_count(d)' = use_count(d) + 1
                      /\ use_count(b)' = use_count(b) + 1
            /\ \A x \in {d, b} :
                  Did("Destroy", x, 0) =>
                      LET y == IF x = d THEN b ELSE d IN
                      /\ recLive'[s] /\ dtorCalls'[s] = 0
                      /\ use_count(y)' = use_count(y) - 1
            /\ \A x \in {d, b} :
                  (Did("Destroy", x, 0) /\ Naming(s) = {d, b}) =>
                      \* the other one is now the last: releasing it destroys
                      LET y  == IF x = d THEN b ELSE d
                          s1 == Release(Cur, y)'
                      IN /\ unique(y)'
                         /\ ~s1.rec[s] /\ s1.dtor[s] = 1

C4_StepOk ==
    \A h \in Handles :
        ((Did("CopyAssign", h, h) \/ Did("MoveAssign", h, h)) /\ NonEmpty(h)) =>
            /\ mReferenceId'[h] = mReferenceId[h]
            /\ mPtr'[h] = mPtr[h]
            /\ use_count(h)' = use_count(h)
            /\ NonEmpty(h)' /\ OperatorBool(h)'
            /\ calls' = <<>>
            /\ UNCHANGED <<alive, mReferenceId, mPtr, refCount, recLive, dtorCalls>>

C4_SelfAssignmentIsNoOp == [][C4_StepOk]_vars

C4_Witness ==
    /\ lastOp.name = "CopyAssign" /\ lastOp.dst = lastOp.src
    /\ NonEmpty(lastOp.dst) /\ use_count(lastOp.dst) = 2

\* C5: move construction gives the new handle the source's identifier and
\* pointer, leaves the source in the sentinel state and issues no registry
\* call: no count and no record changes.
C5_StepOk ==
    \A d, s \in Handles :
        (Did("MoveConstruct", d, s) \/ Did("ConvMoveConstruct", d, s)) =>
            /\ mReferenceId'[d] = mReferenceId[s]
            /\ mPtr'[d] = mPtr[s]
            /\ mReferenceId'[s] = kInvalidReferenceId
            /\ mPtr'[s] = nullptr
            /\ alive'[s]
            /\ calls' = <<>>
            /\ UNCHANGED <<refCount, recLive, dtorCalls>>
            /\ \A k \in Handles \ {d, s} :
                  mReferenceId'[k] = mReferenceId[k] /\ mPtr'[k] = mPtr[k]

C5_MoveConstructionSteals == [][C5_StepOk]_vars

C5_Witness ==
    /\ lastOp.name = "ConvMoveConstruct"
    /\ NonEmpty(lastOp.dst) /\ unique(lastOp.dst)
    /\ alive[lastOp.src] /\ ~NonEmpty(lastOp.src) /\ mPtr[lastOp.src] = nullptr

\* C6 as stated: move assignment from the same type and from a related type
\* alike exchanges the two handles' state and changes no reference count.
C6_AsStated_StepOk ==
    \A d, s \in Handles :
        (Did("MoveAssign", d, s) \/ Did("ConvMoveAssign", d, s)) =>
            /\ mReferenceId'[s] = mReferenceId[d] /\ mPtr'[s] = mPtr[d]
            /\ mReferenceId'[d] = mReferenceId[s] /\ mPtr'[d] = mPtr[s]
            /\ calls' = <<>>
            /\ UNCHANGED <<refCount, recLive, dtorCalls>>

C6_AsStated == [][C6_AsStated_StepOk]_vars

\* C6 amended: same-type move assignment exchanges the two handles' state and
\* issues no registry call, so the destination's previous referent stays
\* counted through the moved-from handle.  Converting move assignment does
\* not exchange: with equal identifiers it only re-points the destination and
\* leaves the source as it was; with different identifiers it releases the
\* destination's previous referent at once (one Decrement, destroying it when
\* that was the last handle), adopts the source's identifier and pointer and
\* leaves the source in the sentinel state, the source's count unchanged.
C6_StepOk ==
    \A d, s \in Handles :
        /\ Did("MoveAssign", d, s) =>
              /\ mReferenceId'[s] = mReferenceId[d] /\ mPtr'[s] = mPtr[d]
              /\ mReferenceId'[d] = mReferenceId[s] /\ mPtr'[d] = mPtr[s]
              /\ calls' = <<>>
              /\ UNCHANGED <<refCount, recLive, dtorCalls>>
              /\ alive'[s]
        /\ (Did("ConvMoveAssign", d, s) /\ mReferenceId[d] = mReferenceId[s]) =>
              /\ mPtr'[d] = mPtr[s]
              /\ UNCHANGED <<mReferenceId, refCount, recLive, dtorCalls>>
              /\ mPtr'[s] = mPtr[s]
              /\ calls' = <<>>
        /\ (Did("ConvMoveAssign", d, s) /\ mReferenceId[d] # mReferenceId[s]) =>
              LET old == mReferenceId[d] IN
              /\ mReferenceId'[d] = mReferenceId[s] /\ mPtr'[d] = mPtr[s]
              /\ mReferenceId'[s] = kInvalidReferenceId /\ mPtr'[s] = nullptr
              /\ calls' = IF old # kInvalidReferenceId
                          THEN <<DecCall(old, mPtr[d])>> ELSE <<>>
              /\ \A i \in Ids \ {old} :
                    refCount'[i] = refCount[i] /\ recLive'[i] = recLive[i]
              /\ old # kInvalidReferenceId =>
                    /\ refCount'[old] = refCount[old] - 1
                    /\ recLive'[old] <=> refCount[old] > 1
                    /\ dtorCalls'[old] = IF refCount[old] = 1 THEN 1 ELSE 0

C6_MoveAssignment == [][C6_StepOk]_vars

\* a converting move assignment that destroyed the destination's previous
\* referent during the assignment
C6_Witness ==
    /\ lastOp.name = "ConvMoveAssign"
    /\ NonEmpty(lastOp.dst) /\ ~NonEmpty(lastOp.src)
    /\ Len(calls) = 1 /\ calls[1].op = "Dec"
    /\ ~recLive[calls[1].id] /\ dtorCalls[calls[1].id] = 1

\* C7: copy assignment between handles with the same identifier only
\* re-points the pointer and issues no registry call; between handles with
\* different identifiers it issues the Increment of the source's identifier
\* first and the Decrement of the destination's old identifier after it, and
\* the source's allocation is live with a count of at least 1 afterwards.
C7_StepOk ==
    \A d, s \in Handles :
        (Did("CopyAssign", d, s) \/ Did("ConvCopyAssign", d, s)) =>
            /\ mPtr'[d] = mPtr[s]
            /\ mReferenceId'[d] = mReferenceId[s]
            /\ mReferenceId[d] = mReferenceId[s] =>
                  /\ calls' = <<>>
                  /\ UNCHANGED <<mReferenceId, refCount, recLive, dtorCalls>>
            /\ mReferenceId[d] # mReferenceId[s] =>
                  /\ calls' =
                        (IF NonEmpty(s) THEN <<IncCall(mReferenceId[s])>> ELSE <<>>)
                        \o (IF NonEmpty(d)
                            THEN <<DecCall(mReferenceId[d], mPtr[d])>> ELSE <<>>)
                  /\ NonEmpty(s) =>
                        /\ recLive'[mReferenceId[s]]
                        /\ refCount'[mReferenceId[s]] = refCount[mReferenceId[s]] + 1
                        /\ refCount[mReferenceId[s]] >= 1

C7_CopyAssignment == [][C7_StepOk]_vars

\* a copy assignment between two non-empty handles of different allocations
C7_Witness ==
    /\ lastOp.name \in {"CopyAssign", "ConvCopyAssign"}
    /\ Len(calls) = 2
    /\ calls[1].op = "Inc" /\ calls[2].op = "Dec" /\ calls[1].id # calls[2].id
    /\ mReferenceId[lastOp.dst] = calls[1].id

\* C10: every handle has the sentinel identifier exactly when its pointer is
\* null, so operator bool is true exactly when use_count() is at least 1.
C10_SentinelIffNull ==
    \A h \in Handles :
        alive[h] =>
            /\ (mReferenceId[h] = kInvalidReferenceId) <=> (mPtr[h] = nullptr)
            /\ OperatorBool(h) <=> (use_count(h) >= 1)

\* ----------------------------------------------------- concurrent claims
\* a constructed handle whose destruction has not begun
Stable(h) == alive[h] /\ ~\E t \in Threads : pc[t] \in ReleasePcs /\ tThis[t] = h

\* references of allocation s held by unfinished operations: a copy that has
\* incremented, a release that has not yet decremented
InFlight(s) ==
    Cardinality({t \in Threads : pc[t] \in {"copy_id", "copy_ptr"} /\ tId[t] = s})
    + Cardinality({t \in Threads : pc[t] = "rel_dec" /\ tId[t] = s})

StableNaming(s) == {h \in Handles : Stable(h) /\ mReferenceId[h] = s}

C9_CountAndSingleDestruction ==
    /\ fault = "none"
    /\ ~raced
    /\ \A s \in Ids :
          /\ refCount[s] >= Cardinality(StableNaming(s))
          /\ refCount[s] = Cardinality(StableNaming(s)) + InFlight(s)
          /\ dtorCalls[s] <= 1
          /\ recLive[s] <=> refCount[s] > 0
    /\ recLive[1] <=> dtorCalls[1] = 0

\* two threads have both decremented, releasing the last two handles at the
\* same time: the object was destroyed once
C9_Witness ==
    /\ \A t \in {1, 2} : pc[t] = "rel_id" /\ tId[t] = 1
    /\ StableNaming(1) = {}
    /\ ~recLive[1] /\ dtorCalls[1] = 1 /\ fault = "none"

\* ------------------------------------------------ equality, reset, the pool
\* C11: equality compares the raw addresses: two live handles naming the same
\* allocation compare equal (operator== true, operator!= false) whatever their
\* static types, a handle made by copy or converting copy compares equal to
\* its source, a handle made by move compares equal to every other handle of
\* the allocation and unequal to its emptied source, and a non-empty handle
\* compares unequal to every empty one.
C11_StateOk ==
    \A a, b \in Handles :
        (alive[a] /\ alive[b] /\ NonEmpty(a)) =>
            /\ OperatorEq(a, b) <=> (mPtr[a] = mPtr[b])
            /\ OperatorNe(a, b) <=> ~OperatorEq(a, b)
            /\ mReferenceId[a] = mReferenceId[b] =>
                  (OperatorEq(a, b) /\ OperatorEq(b, a) /\ ~OperatorNe(a, b))
            /\ ~NonEmpty(b) =>
                  (OperatorNe(a, b) /\ OperatorNe(b, a) /\ ~OperatorEq(a, b))

C11_StepOk ==
    \A d, s \in Handles :
        /\ ((Did("CopyConstruct", d, s) \/ Did("ConvCopyConstruct", d, s))
               /\ NonEmpty(s)) =>
              /\ OperatorEq(d, s)' /\ OperatorEq(s, d)' /\ ~OperatorNe(d, s)'
              /\ \A k \in Naming(mReferenceId[s]) : OperatorEq(d, k)'
        /\ ((Did("MoveConstruct", d, s) \/ Did("ConvMoveConstruct", d, s))
               /\ NonEmpty(s)) =>
              /\ OperatorNe(d, s)' /\ ~OperatorEq(d, s)'
              /\ \A k \in Naming(mReferenceId[s]) \ {s} :
                    OperatorEq(d, k)' /\ ~OperatorNe(d, k)'

C11_EqualityComparesAddresses == []C11_StateOk /\ [][C11_StepOk]_vars

\* a Base handle made by converting copy from a Derived one compares equal to
\* it, and unequal to an empty handle that is alive too
C11_Witness ==
    /\ lastOp.name = "ConvCopyConstruct"
    /\ TypeOf(lastOp.dst) = "Base" /\ TypeOf(lastOp.src) = "Derived"
    /\ NonEmpty(lastOp.dst)
    /\ OperatorEq(lastOp.dst, lastOp.src) /\ ~OperatorNe(lastOp.dst, lastOp.src)
    /\ \E e \in Handles :
          alive[e] /\ ~NonEmpty(e) /\ OperatorNe(lastOp.dst, e)

\* the number of calls of operation op on identifier i in the call list cs
NumCalls(cs, op, i) ==
    Cardinality({n \in 1..Len(cs) : cs[n].op = op /\ cs[n].id = i})

\* reset( ptr ) with the address of a live node: the handle refers to that
\* allocation, whose count is one higher (unchanged if the handle referred to
\* it already), and what the handle held before was decremented exactly once
C12_ResetPointer_StepOk ==
    \A h \in Handles, p \in ObjAddrs :
        Did("Reset", h, p) =>
            LET s   == GetLastAllocID(Cur, p)
                old == mReferenceId[h]
            IN /\ s # kInvalidReferenceId
               /\ mReferenceId'[h] = s /\ mPtr'[h] = p
               /\ recLive'[s]
               /\ refCount'[s] = IF old = s THEN refCount[s] ELSE refCount[s] + 1
               /\ NumCalls(calls', "Inc", s) = 1
               /\ old # kInvalidReferenceId =>
                     /\ NumCalls(calls', "Dec", old) = 1
                     /\ old # s => refCount'[old] = refCount[old] - 1
               /\ \A i \in Ids \ {s, old} :
                     refCount'[i] = refCount[i] /\ recLive'[i] = recLive[i]

\* reset() with the default null argument: the handle is left in the sentinel
\* state, what it held before was decremented once, and neither a
\* GetLastAllocID lookup nor an Increment was issued
C12_ResetNull_StepOk ==
    \A h \in Handles :
        Did("Reset", h, nullptr) =>
            /\ mReferenceId'[h] = kInvalidReferenceId /\ mPtr'[h] = nullptr
            /\ NonEmpty(h) => NumCalls(calls', "Dec", mReferenceId[h]) = 1
            /\ \A n \in 1..Len(calls') : calls'[n].op \notin {"GetLastAllocID", "Inc"}

\* C12: reset( ptr ) is the assignment of a fresh handle for ptr: the handle
\* refers to ptr's allocation, counted once more, its previous referent is
\* decremented exactly once; and reset() with the null default leaves the
\* sentinel state without any GetLastAllocID lookup or Increment.
C12_ResetAsStated == [][C12_ResetPointer_StepOk /\ C12_ResetNull_StepOk]_vars

\* C13: New never hands out an identifier that a live handle still holds: the
\* slot it takes has no record and no live handle naming it.  A slot whose
\* allocation was fully released may be taken again, and taking it (as taking
\* a fresh one) leaves the count, the record and the handles of every other
\* allocation as they were; the new allocation starts with count 1.
C13_StateOk ==
    \A s \in Ids : Naming(s) # {} => (recLive[s] /\ refCount[s] >= 1)

C13_StepOk ==
    \A h \in Handles, r \in {0, 1} :
        Did("New", h, r) =>
            LET s == mReferenceId'[h] IN
            /\ s \in Ids
            /\ Naming(s) = {} /\ ~recLive[s]
            /\ (r = 1) <=> (dtorCalls[s] = 1)
            /\ recLive'[s] /\ refCount'[s] = 1 /\ dtorCalls'[s] = 0
            /\ mPtr'[h] = AddrOf(s)
            /\ {k \in Handles : alive'[k] /\ mReferenceId'[k] = s} = {h}
            /\ \A i \in Ids \ {s} :
                  /\ refCount'[i] = refCount[i]
                  /\ recLive'[i] = recLive[i]
                  /\ dtorCalls'[i] = dtorCalls[i]
                  /\ Naming(i)' = Naming(i)
            /\ \A k \in Handles \ {h} :
                  mReferenceId'[k] = mReferenceId[k] /\ mPtr'[k] = mPtr[k]

C13_IdentifierNotReusedWhileHeld == []C13_StateOk /\ [][C13_StepOk]_vars

\* New has taken a slot whose previous allocation was destroyed, while
\* another allocation is alive and shared by two handles
C13_Witness ==
    /\ lastOp.name = "New" /\ lastOp.src = 1
    /\ unique(lastOp.dst)
    /\ \E i \in Ids \ {mReferenceId[lastOp.dst]} :
          recLive[i] /\ refCount[i] = 2 /\ Cardinality(Naming(i)) = 2

\* C14: with every slot of the pool holding a live allocation, a further
\* New fails: no handle is produced (not an empty one either), no registry
\* call is issued, and every allocation keeps its count, its record and its
\* handles.  Each allocation is still valid (count = number of its live
\* handles >= 1, no destructor run) and can be destroyed by itself: releasing
\* its only handle destroys it alone, once, at its own address.
C14_StateOk ==
    lastOp.name = "NewFails" =>
        /\ ~alive[lastOp.dst]
        /\ calls = <<>>
        /\ fault = "none"
        /\ \A s \in Ids :
              /\ recLive[s] /\ dtorCalls[s] = 0
              /\ refCount[s] >= 1
              /\ refCount[s] = Cardinality(Naming(s))
              /\ \A k \in Naming(s) : mPtr[k] = AddrOf(s) /\ use_count(k) = refCount[s]

C14_StepOk ==
    \A h \in Handles :
        Did("NewFails", h, 0) =>
            /\ \A s \in Ids : recLive[s]
            /\ Cardinality({s \in Ids : recLive[s]}) = NumSlots
            /\ UNCHANGED <<alive, mReferenceId, mPtr, refCount, recLive, dtorCalls, dtorAddr, fault>>
            /\ \A k \in Handles :
                  (alive[k] /\ NonEmpty(k)) =>
                      LET s  == mReferenceId[k]
                          s1 == Release(Cur, k)
                      IN /\ s1.fault = "none"
                         /\ s1.cnt[s] = refCount[s] - 1
                         /\ s1.rec[s] <=> refCount[s] > 1
                         /\ s1.dtor[s] = (IF refCount[s] = 1 THEN 1 ELSE 0)
                         /\ refCount[s] = 1 => s1.daddr[s] = AddrOf(s)
                         /\ \A i \in Ids \ {s} :
                               /\ s1.cnt[i] = refCount[i] /\ s1.rec[i]
                               /\ s1.dtor[i] = 0

C15_DestructorGetsOwnAddress ==
    /\ \A s \in Ids : dtorCalls[s] >= 1 => dtorAddr[s] = AddrOf(s)
    /\ \A n \in 1..Len(calls) :
          (calls[n].op = "Dec" /\ calls[n].id \in Ids /\ ~recLive[calls[n].id]) =>
              calls[n].ptr = AddrOf(calls[n].id)

\* ------------------------------------------------- handles owned by nodes
\* A node may hold a handle to another node as a data member (its source
\* generator).  Here the node built in slot s has the member handle
\* ChildOf(s), constructed empty with the node and destroyed by the node's
\* destructor; the remaining handles are local variables.  Member handles
\* are SmartNode<Derived>, local ones SmartNode<Base>.
ChildOf(s) == 2 * s - 1
MemberHandles == {ChildOf(s) : s \in Ids} \cap Handles
LocalHandles == Handles \ MemberHandles
NodeOf(h) == CHOOSE s \in Ids : ChildOf(s) = h
\* the node constructed at address p
NodeAt(p) == CHOOSE s \in Ids : AddrOf(s) = p

RECURSIVE NodeDecReference(_, _, _)
RECURSIVE NodeRelease(_, _)

\* DecReference whose destructorFunc, ( (U*)ptr )->~T(), destroys a node with
\* a member handle: ~T() runs ~SmartNode() of the member before the slot is
\* returned.
NodeDecReference(st, id, ptr) ==
    LET s1 == Call(st, "Dec", id, ptr) IN
    IF id = kInvalidReferenceId THEN s1
    ELSE IF ~s1.rec[id] \/ s1.cnt[id] = 0 THEN Fault(s1, "dec_dead")
    ELSE IF s1.cnt[id] > 1 THEN [s1 EXCEPT !.cnt[id] = @ - 1]
    ELSE LET s2 == [s1 EXCEPT !.cnt[id] = 0, !.dtor[id] = @ + 1, !.daddr[id] = ptr]
             m  == ChildOf(NodeAt(ptr))
             s3 == IF m \in Handles THEN NodeRelease(s2, m) ELSE s2
         IN [s3 EXCEPT !.rec[id] = FALSE]

\* SmartNode::Release, the destructor function being that of such a node
NodeRelease(st, h) ==
    LET s1 == IF st.id[h] # kInvalidReferenceId
              THEN NodeDecReference(st, st.id[h], st.ptr[h])
              ELSE st
    IN [s1 EXCEPT !.id[h] = kInvalidReferenceId, !.ptr[h] = nullptr]

\* a member handle exists exactly while its node does
NodeAlive(st, h, local) ==
    IF h \in MemberHandles THEN st.rec[NodeOf(h)] ELSE local

NodeCommit(st, locals) ==
    /\ Commit(st)
    /\ alive' = [h \in Handles |-> NodeAlive(st, h, locals[h])]

\* What a read of a member of a destroyed handle can give: the value the
\* handle's destructor left in the freed slot, or the value from before.
DeadReads == {"left", "stale"}

\* the handle src has been destroyed, with the node owning it
Gone(st, src) == src \in MemberHandles /\ ~st.rec[NodeOf(src)]

\* the statements after Release() access node: undefined when it is destroyed
AccessNode(st, src) ==
    IF Gone(st, src) THEN Fault(st, "destroyed_handle") ELSE st

ReadId(st0, st, src, r) ==
    IF Gone(st, src) /\ r = "stale" THEN st0.id[src] ELSE st.id[src]

ReadPtr(st0, st, src, r) ==
    IF Gone(st, src) /\ r = "stale" THEN st0.ptr[src] ELSE st.ptr[src]

\* auto h = New<T>(): the node's member handle is constructed empty
NodeNew(h, s) ==
    /\ fault = "none" /\ h \in LocalHandles /\ ~alive[h]
    /\ ~recLive[s]
    /\ LET s0 == [Cur EXCEPT !.rec[s] = TRUE, !.cnt[s] = 0, !.dtor[s] = 0,
                             !.daddr[s] = nullptr]
       IN NodeCommit(FromPointer(s0, h, AddrOf(s)), [alive EXCEPT ![h] = TRUE])
    /\ Op("NodeNew", h, dtorCalls[s])

\* node->child = New<T>(): operator=( SmartNode&& ) swaps with the temporary,
\* whose destructor releases what the member held before
NodeSetChild(m, s) ==
    /\ fault = "none" /\ m \in MemberHandles /\ alive[m]
    /\ ~recLive[s]
    /\ LET s0 == [Cur EXCEPT !.rec[s] = TRUE, !.cnt[s] = 0, !.dtor[s] = 0,
                             !.daddr[s] = nullptr]
           i  == GetLastAllocID(s0, AddrOf(s))
           s1 == IncReference(Call(s0, "GetLastAllocID", i, AddrOf(s)), i)
           s2 == SetHandle(s1, m, i, AddrOf(s))
           s3 == IF s1.id[m] # kInvalidReferenceId
                 THEN NodeDecReference(s2, s1.id[m], s1.ptr[m]) ELSE s2
       IN NodeCommit(s3, alive)
    /\ Op("NodeSetChild", m, s)

\* SmartNode( const SmartNode<U>& node ) into a local handle
NodeConvCopyConstruct(dst, src) ==
    /\ fault = "none" /\ dst \in LocalHandles /\ ~alive[dst] /\ alive[src]
    /\ Convertible(TypeOf(src), TypeOf(dst))
    /\ NodeCommit(CopyBody(Cur, dst, src), [alive EXCEPT ![dst] = TRUE])
    /\ Op("NodeConvCopyConstruct", dst, src)

\* ~SmartNode() of a local handle
NodeDestroy(h) ==
    /\ fault = "none" /\ h \in LocalHandles /\ alive[h]
    /\ NodeCommit(NodeRelease(Cur, h), [alive EXCEPT ![h] = FALSE])
    /\ Op("NodeDestroy", h, 0)

\* operator=( const SmartNode& ) and operator=( const SmartNode<U>& ): after
\* Release() the source is read again, destroyed or not
NodeCopyAssignBody(st, dst, src, r) ==
    LET s1 == IF st.id[dst] # st.id[src]
              THEN LET a == TryInc(st, st.id[src])
                       b == AccessNode(NodeRelease(a, dst), src)
                   IN [b EXCEPT !.id[dst] = ReadId(st, b, src, r)]
              ELSE st
    IN [s1 EXCEPT !.ptr[dst] = ReadPtr(st, s1, src, r)]

NodeCopyAssign(dst, src) ==
    /\ fault = "none" /\ alive[dst] /\ alive[src]
    /\ TypeOf(dst) = TypeOf(src)
    /\ \E r \in DeadReads : NodeCommit(NodeCopyAssignBody(Cur, dst, src, r), alive)
    /\ Op("NodeCopyAssign", dst, src)

NodeConvCopyAssign(dst, src) ==
    /\ fault = "none" /\ alive[dst] /\ alive[src]
    /\ Convertible(TypeOf(src), TypeOf(dst))
    /\ \E r \in DeadReads : NodeCommit(NodeCopyAssignBody(Cur, dst, src, r), alive)
    /\ Op("NodeConvCopyAssign", dst, src)

\* operator=( SmartNode<U>&& ): after Release() the source is read and then
\* written, destroyed or not; the writes store what a destroyed handle holds
NodeConvMoveAssignBody(st, dst, src, r) ==
    IF st.id[dst] = st.id[src]
    THEN [st EXCEPT !.ptr[dst] = st.ptr[src]]
    ELSE LET s1 == AccessNode(NodeRelease(st, dst), src)
             s2 == SetHandle(s1, dst, ReadId(st, s1, src, r), ReadPtr(st, s1, src, r))
         IN SetHandle(s2, src, kInvalidReferenceId, nullptr)

NodeConvMoveAssign(dst, src) ==
    /\ fault = "none" /\ alive[dst] /\ alive[src]
    /\ Convertible(TypeOf(src), TypeOf(dst))
    /\ \E r \in DeadReads : NodeCommit(NodeConvMoveAssignBody(Cur, dst, src, r), alive)
    /\ Op("NodeConvMoveAssign", dst, src)

NextNode ==
    \/ \E h \in Handles, s \in Ids : NodeNew(h, s)
    \/ \E m \in Handles, s \in Ids : NodeSetChild(m, s)
    \/ \E d \in Handles, s \in Handles : NodeConvCopyConstruct(d, s)
    \/ \E h \in Handles : NodeDestroy(h)
    \/ \E d \in Handles, s \in Handles : NodeCopyAssign(d, s)
    \/ \E d \in Handles, s \in Handles : NodeConvCopyAssign(d, s)
    \/ \E d \in Handles, s \in Handles : NodeConvMoveAssign(d, s)

SpecNode == Init /\ [][NextNode]_vars

\* the source handle s is a member of the node that d, its last handle, names
OwnedSource(d, s) ==
    /\ alive[d] /\ alive[s] /\ NonEmpty(d) /\ NonEmpty(s)
    /\ s \in MemberHandles /\ NodeOf(s) = mReferenceId[d]
    /\ refCount[mReferenceId[d]] = 1
    /\ mReferenceId[s] # mReferenceId[d]

\* C16: parent = parent->child, by copy assignment or converting move
\* assignment, parent being the last handle of its node: afterwards parent
\* holds the identifier and pointer the child handle had, that allocation is
\* live and its count is the number of live handles naming it.
C16_StepOk ==
    \A d, s \in Handles :
        ((Did("NodeCopyAssign", d, s) \/ Did("NodeConvCopyAssign", d, s)
            \/ Did("NodeConvMoveAssign", d, s)) /\ OwnedSource(d, s)) =>
            LET c == mReferenceId[s] IN
            /\ mReferenceId'[d] = c /\ mPtr'[d] = mPtr[s]
            /\ recLive'[c] /\ dtorCalls'[c] = 0
            /\ refCount'[c] =
                  Cardinality({k \in Handles : alive'[k] /\ mReferenceId'[k] = c})

C16_AssignFromOwnedSource == [][C16_StepOk]_vars

\* C17: a handle gives back each reference once.  Destroying a non-empty
\* handle issues exactly one registry call, the Decrement of its identifier
\* with its pointer, and lowers that count by one; destroying an empty
\* handle (default-constructed, moved-from or reset) issues none and changes
\* no count.  Release leaves the sentinel state, so a second Release changes
\* nothing and issues no call.
C17_StateOk ==
    \A h \in Handles :
        alive[h] =>
            LET r1 == Release(Cur, h)
                r2 == Release(r1, h)
            IN /\ r1.id[h] = kInvalidReferenceId /\ r1.ptr[h] = nullptr
               /\ r1.calls = (IF NonEmpty(h)
                              THEN <<DecCall(mReferenceId[h], mPtr[h])>> ELSE <<>>)
               /\ r2 = r1
               /\ r1.fault = "none"

C17_StepOk ==
    \A h \in Handles :
        Did("Destroy", h, 0) =>
            /\ mReferenceId'[h] = kInvalidReferenceId /\ mPtr'[h] = nullptr
            /\ NonEmpty(h) =>
                  /\ calls' = <<DecCall(mReferenceId[h], mPtr[h])>>
                  /\ refCount'[mReferenceId[h]] = refCount[mReferenceId[h]] - 1
                  /\ \A i \in Ids \ {mReferenceId[h]} : refCount'[i] = refCount[i]
            /\ ~NonEmpty(h) =>
                  /\ calls' = <<>>
                  /\ UNCHANGED <<refCount, recLive, dtorCalls, dtorAddr>>
            /\ fault' = "none"

C17_OneDecrementPerReference == []C17_StateOk /\ [][C17_StepOk]_vars

\* an empty handle was destroyed without any registry call while a non-empty
\* handle exists, whose count is still 1
C17_Witness ==
    /\ lastOp.name = "Destroy" /\ calls = <<>>
    /\ ~alive[lastOp.dst]
    /\ \E k \in Handles : alive[k] /\ NonEmpty(k) /\ unique(k)
    /\ \A s \in Ids : dtorCalls[s] = 0

\* the sentinel state and what the observers report in it
C18_StateOk ==
    \A h \in Handles :
        /\ (lastOp.name = "DefaultConstruct" /\ lastOp.dst = h) =>
              /\ alive[h]
              /\ mReferenceId[h] = kInvalidReferenceId /\ mPtr[h] = nullptr
              /\ calls = <<>>
        /\ (alive[h] /\ ~NonEmpty(h)) =>
              /\ mPtr[h] = nullptr
              /\ ~OperatorBool(h) /\ use_count(h) = 0 /\ ~unique(h)

\* constructing, copying, moving and destroying an empty handle
C18_ConstructDestroy_StepOk ==
    /\ \A h \in Handles :
          Did("DefaultConstruct", h, 0) =>
              (calls' = <<>> /\ UNCHANGED <<refCount, recLive, dtorCalls>>)
    /\ \A d, s \in Handles :
          ((Did("CopyConstruct", d, s) \/ Did("ConvCopyConstruct", d, s)
              \/ Did("AliasConstruct", d, s)
              \/ Did("MoveConstruct", d, s) \/ Did("ConvMoveConstruct", d, s))
             /\ ~NonEmpty(s)) =>
              /\ calls' = <<>> /\ UNCHANGED <<refCount, recLive, dtorCalls>>
              /\ mReferenceId'[d] = kInvalidReferenceId /\ mPtr'[d] = nullptr
              /\ mReferenceId'[s] = kInvalidReferenceId /\ mPtr'[s] = nullptr
    /\ \A h \in Handles :
          (Did("Destroy", h, 0) /\ ~NonEmpty(h)) =>
              (calls' = <<>> /\ UNCHANGED <<refCount, recLive, dtorCalls>>)

AssignedFrom(d, s) ==
    \/ Did("CopyAssign", d, s) \/ Did("ConvCopyAssign", d, s)
    \/ Did("MoveAssign", d, s) \/ Did("ConvMoveAssign", d, s)

\* C18 as stated: also assigning from an empty handle issues no Increment and
\* no Decrement and leaves every count unchanged.
C18_AsStated_StepOk ==
    /\ C18_ConstructDestroy_StepOk
    /\ \A d, s \in Handles :
          (AssignedFrom(d, s) /\ ~NonEmpty(s)) =>
              (calls' = <<>> /\ UNCHANGED <<refCount, recLive, dtorCalls>>)

C18_AsStated == []C18_StateOk /\ [][C18_AsStated_StepOk]_vars

\* C18 amended: default or null construction gives the sentinel state
\* (sentinel identifier, null pointer, boolean test false, use_count() 0,
\* unique() false); constructing, copying, moving and destroying an empty
\* handle issues no registry call and changes no count.  Assigning from an
\* empty handle issues no Increment; move assignment issues no call at all;
\* copy assignment and converting move assignment release what the
\* destination held: exactly one Decrement, of the destination's previous
\* identifier, when the destination was non-empty, and none otherwise; no
\* other allocation's count changes and the destination is left empty.
C18_StepOk ==
    /\ C18_ConstructDestroy_StepOk
    /\ \A d, s \in Handles :
          (AssignedFrom(d, s) /\ ~NonEmpty(s)) =>
              LET old == mReferenceId[d] IN
              /\ mReferenceId'[d] = kInvalidReferenceId /\ mPtr'[d] = nullptr
              /\ \A n \in 1..Len(calls') : calls'[n].op # "Inc"
              /\ Did("MoveAssign", d, s) =>
                    /\ calls' = <<>> /\ UNCHANGED <<refCount, recLive, dtorCalls>>
                    /\ mReferenceId'[s] = old /\ mPtr'[s] = mPtr[d]
              /\ ~Did("MoveAssign", d, s) =>
                    /\ calls' = (IF old # kInvalidReferenceId
                                 THEN <<DecCall(old, mPtr[d])>> ELSE <<>>)
                    /\ \A i \in Ids \ {old} :
                          refCount'[i] = refCount[i] /\ recLive'[i] = recLive[i]
                    /\ old # kInvalidReferenceId =>
                          refCount'[old] = refCount[old] - 1
                    /\ mReferenceId'[s] = kInvalidReferenceId

C18_EmptyHandleFrame == []C18_StateOk /\ [][C18_StepOk]_vars

\* an empty handle was copy-assigned to a non-empty one, whose previous
\* referent was decremented and is still alive
C18_Witness ==
    /\ lastOp.name \in {"CopyAssign", "ConvCopyAssign"}
    /\ alive[lastOp.src] /\ ~NonEmpty(lastOp.src) /\ ~NonEmpty(lastOp.dst)
    /\ Len(calls) = 1 /\ calls[1].op = "Dec"
    /\ recLive[calls[1].id] /\ refCount[calls[1].id] = 1

====
